---------------------------- MODULE Spec2Model ----------------------------
(***************************************************************************)
(* Arkadia: the BME280 acquisition service (services/tph), its sensor      *)
(* client (bme280_client.py) and the read API (services/data).             *)
(*                                                                         *)
(* The specifications of the module:                                       *)
(*   SpecSensor   one BME280Client session on the I2C bus                  *)
(*   SpecConnect  connect_redis(retries, delay)                            *)
(*   SpecBatch    is_valid_sample and the median aggregation on batches    *)
(*   Spec         main() of the tph service: connect, sample, publish      *)
(*   FairSpec     Spec with the progress of main's single thread           *)
(*   SpecApi      the read API against the store key "tph"                 *)
(*   SpecHandle   two concurrent requests and the shutdown hook            *)
(* Each specification leaves the other parts' variables untouched.         *)
(***************************************************************************)
EXTENDS Integers, Sequences, FiniteSets, TLC

VARIABLES
    \* ---- bme280_client.py: one sensor session ----
    regA,          \* device registers 0x88.., 26 bytes (calibration block A)
    regB,          \* device registers 0xE1.., 7 bytes (calibration block B)
    spc,           \* where BME280Client.__init__ / the session stands
    cal1,          \* local cal1 of _load_calibration
    calib,         \* self.calib
    busLog,        \* every bus operation issued so far, in order
    t_fine,        \* self.t_fine
    reading,       \* what the last read_data call returned or raised
    nreads,        \* number of read_data calls made
    \* ---- tph/main.py: connect_redis ----
    retries,       \* parameter retries
    delay,         \* parameter delay
    cpc,           \* where the call stands
    loop_i,        \* the loop index i of connect_redis
    attempts,      \* connection attempts made (Redis(...) and ping)
    slept,         \* seconds spent in time.sleep(delay)
    \* ---- tph/main.py: is_valid_sample and the aggregation, on one batch ----
    frame,         \* the DataFrame handed in
    verdict,       \* what is_valid_sample returned
    median_data,   \* the record built from a valid batch
    \* ---- tph/main.py: main ----
    envAddress,    \* the I2C_ADDRESS environment variable
    mpc,           \* where main stands
    loop_k,        \* iterations done by the running get_data_sample
    lists,         \* the five lists of get_data_sample, as rows
    sample_data,   \* main's sample_data
    store,         \* the store's value under the key "tph"
    event,         \* what the last step of the acquisition loop did
    cycleReads,    \* the measurements read since the current cycle began
    consecFails,   \* consecutive failed cycles, counted up to MaxFails
    \* ---- data/main.py: the read API ----
    acceptsZ,      \* whether this Python's datetime.fromisoformat reads a final Z
    instance,      \* RedisClient._instance: 0 for None, else a handle
    nhandles,      \* Redis(...) handles created so far
    closed,        \* the handles whose close() has completed
    hook,          \* where shutdown_event stands
    req,           \* the requests to GET /api/v1/tph
    written        \* every value the key "tph" has held

sensorVars == <<regA, regB, spc, cal1, calib, busLog, t_fine, reading, nreads>>
connectVars == <<retries, delay, cpc, loop_i, attempts, slept>>
batchVars == <<frame, verdict, median_data>>
mainVars == <<envAddress, mpc, loop_k, lists, sample_data, store, event, cycleReads, consecFails>>
apiVars == <<acceptsZ, instance, nhandles, closed, hook, req, written>>
vars == <<sensorVars, connectVars, batchVars, mainVars, apiVars>>

-----------------------------------------------------------------------------
(* Bounds *)

\* read_data calls explored per session
MaxReads == 2

\* connect_redis is explored for retries in 0..MaxRetries, delay in 0..MaxDelay
MaxRetries == 5
MaxDelay == 2

\* rows of the batches handed to is_valid_sample on its own
MaxLen == 3

\* n of get_data_sample(n, r, client) in the acquisition loop (20 in main)
SampleN == 2

\* consecutive failed cycles counted
MaxFails == 2

\* Redis(...) handles the read API may create
MaxHandles == 2

-----------------------------------------------------------------------------
(* Bit arithmetic on non-negative integers, as Python's <<, >>, | and &. *)

RECURSIVE BitOr(_, _)
BitOr(a, b) ==
    IF a = 0 THEN b
    ELSE IF b = 0 THEN a
    ELSE (IF a % 2 = 1 \/ b % 2 = 1 THEN 1 ELSE 0) + 2 * BitOr(a \div 2, b \div 2)

RECURSIVE BitAnd(_, _)
BitAnd(a, b) ==
    IF a = 0 \/ b = 0 THEN 0
    ELSE (IF a % 2 = 1 /\ b % 2 = 1 THEN 1 ELSE 0) + 2 * BitAnd(a \div 2, b \div 2)

Shl(a, k) == a * 2^k

Shr(a, k) == a \div 2^k

-----------------------------------------------------------------------------
(* bme280_client.py: registers *)

RESET_REG == 224
CTRL_HUM_REG == 242
CTRL_MEAS_REG == 244
CONFIG_REG == 245
DATA_REG == 247
CALIB_REG == 136
CALIB_HUM_REG == 225

Unset == [unset |-> TRUE]

\* Bytes the register blocks are filled from: the ends and the sign boundary.
ByteSamples == {0, 1, 127, 128, 255}

\* A background in which every offset holds a different byte.
BgA == [i \in 0..25 |-> i + 1]
BgB == [i \in 0..6 |-> 49 + i]

\* Block A with one aligned byte pair replaced; block B with two adjacent bytes replaced.
CalBlocksA ==
    { [BgA EXCEPT ![2 * k] = lo, ![2 * k + 1] = hi] :
        k \in 0..12, lo \in ByteSamples, hi \in ByteSamples }
CalBlocksB ==
    { [BgB EXCEPT ![j] = x, ![j + 1] = y] :
        j \in 0..5, x \in ByteSamples, y \in ByteSamples }

\* 8-byte data bursts the device may hold at 0xF7.
Bytes(s) == [i \in 0..(Len(s) - 1) |-> s[i + 1]]
DataBlocks ==
    { Bytes(<<80, 0, 0, 128, 0, 0, 96, 0>>),
      Bytes(<<81, 35, 64, 130, 17, 240, 97, 2>>) }

-----------------------------------------------------------------------------
(* bme280_client.py: calibration decoding *)

\* _get_signed_16 with the sign test off by one (val > 32768).
_get_signed_16_OffByOne(msb, lsb) ==
    LET val == BitOr(Shl(msb, 8), lsb)
    IN IF val > 32768 THEN val - 65536 ELSE val

_get_signed_16(msb, lsb) ==
    LET val == BitOr(Shl(msb, 8), lsb)
    IN IF val >= 32768 THEN val - 65536 ELSE val

_get_temperature_calibration(data) ==
    [dig_T1 |-> BitOr(Shl(data[1], 8), data[0]),
     dig_T2 |-> _get_signed_16(data[3], data[2]),
     dig_T3 |-> _get_signed_16(data[5], data[4])]

_get_pressure_calibration(data) ==
    [dig_P1 |-> BitOr(Shl(data[7], 8), data[6]),
     dig_P2 |-> _get_signed_16(data[9], data[8]),
     dig_P3 |-> _get_signed_16(data[11], data[10]),
     dig_P4 |-> _get_signed_16(data[13], data[12]),
     dig_P5 |-> _get_signed_16(data[15], data[14]),
     dig_P6 |-> _get_signed_16(data[17], data[16]),
     dig_P7 |-> _get_signed_16(data[19], data[18]),
     dig_P8 |-> _get_signed_16(data[21], data[20]),
     dig_P9 |-> _get_signed_16(data[23], data[22])]

_get_humidity_calibration(c1, c2) ==
    [dig_H1 |-> c1[25],
     dig_H2 |-> _get_signed_16(c2[1], c2[0]),
     dig_H3 |-> c2[2],
     dig_H4 |-> BitOr(Shl(c2[3], 4), BitAnd(c2[4], 15)),
     dig_H5 |-> BitOr(Shl(c2[5], 4), Shr(c2[4], 4)),
     dig_H6 |-> IF c2[6] > 127 THEN c2[6] - 256 ELSE c2[6]]

\* CalibrationData(...) built by _load_calibration from the two blocks.
CalibrationData(c1, c2) ==
    LET t == _get_temperature_calibration(c1)
        p == _get_pressure_calibration(c1)
        h == _get_humidity_calibration(c1, c2)
    IN [dig_T1 |-> t.dig_T1, dig_T2 |-> t.dig_T2, dig_T3 |-> t.dig_T3,
        dig_P1 |-> p.dig_P1, dig_P2 |-> p.dig_P2, dig_P3 |-> p.dig_P3,
        dig_P4 |-> p.dig_P4, dig_P5 |-> p.dig_P5, dig_P6 |-> p.dig_P6,
        dig_P7 |-> p.dig_P7, dig_P8 |-> p.dig_P8, dig_P9 |-> p.dig_P9,
        dig_H1 |-> h.dig_H1, dig_H2 |-> h.dig_H2, dig_H3 |-> h.dig_H3,
        dig_H4 |-> h.dig_H4, dig_H5 |-> h.dig_H5, dig_H6 |-> h.dig_H6]

-----------------------------------------------------------------------------
(* bme280_client.py: the session *)

BusRead(reg, len, ok) == [op |-> "read", reg |-> reg, arg |-> len, ok |-> ok]
BusWrite(reg, val, ok) == [op |-> "write", reg |-> reg, arg |-> val, ok |-> ok]

\* The compensation formulas are floating point; the model keeps, for each
\* value, the raw input and the fine temperature it was computed from.
_compensate_temperature(adc_T) == [adc_T |-> adc_T]
_compensate_pressure(adc_P, fine) == [adc_P |-> adc_P, t_fine |-> fine]
_compensate_humidity(adc_H, fine) == [adc_H |-> adc_H, t_fine |-> fine]

\* The state of a part that a specification does not run.
IdleSensor ==
    /\ regA = BgA
    /\ regB = BgB
    /\ spc = "none"
    /\ cal1 = Unset
    /\ calib = Unset
    /\ busLog = <<>>
    /\ t_fine = Unset
    /\ reading = Unset
    /\ nreads = 0

InitSensor ==
    /\ \/ regA \in CalBlocksA /\ regB = BgB
       \/ regA = BgA /\ regB \in CalBlocksB
    /\ spc = "load_cal1"
    /\ cal1 = Unset
    /\ calib = Unset
    /\ busLog = <<>>
    /\ t_fine = Unset
    /\ reading = Unset
    /\ nreads = 0

\* LoadCal1 with the bus error swallowed: the session carries on.
LoadCal1_Swallowed ==
    /\ spc = "load_cal1"
    /\ \/ /\ busLog' = Append(busLog, BusRead(CALIB_REG, 26, TRUE))
          /\ cal1' = regA
       \/ /\ busLog' = Append(busLog, BusRead(CALIB_REG, 26, FALSE))
          /\ cal1' = BgA
    /\ spc' = "load_cal2"
    /\ UNCHANGED <<regA, regB, calib, t_fine, reading, nreads>>

\* _load_calibration: cal1 = read_i2c_block_data(address, CALIB_REG, 26)
LoadCal1 ==
    /\ spc = "load_cal1"
    /\ \/ /\ busLog' = Append(busLog, BusRead(CALIB_REG, 26, TRUE))
          /\ cal1' = regA
          /\ spc' = "load_cal2"
       \/ /\ busLog' = Append(busLog, BusRead(CALIB_REG, 26, FALSE))
          /\ cal1' = cal1
          /\ spc' = "init_failed"
    /\ UNCHANGED <<regA, regB, calib, t_fine, reading, nreads>>

\* _load_calibration: cal2 = read_i2c_block_data(address, CALIB_HUM_REG, 7),
\* then the decoding; __init__ stores the result in self.calib.
LoadCal2 ==
    /\ spc = "load_cal2"
    /\ \/ /\ busLog' = Append(busLog, BusRead(CALIB_HUM_REG, 7, TRUE))
          /\ calib' = CalibrationData(cal1, regB)
          /\ spc' = "cfg_reset"
       \/ /\ busLog' = Append(busLog, BusRead(CALIB_HUM_REG, 7, FALSE))
          /\ calib' = calib
          /\ spc' = "init_failed"
    /\ UNCHANGED <<regA, regB, cal1, t_fine, reading, nreads>>

\* One write_byte_data of _configure_sensor: it succeeds and the next one
\* follows, or it raises out of __init__.
CfgWrite(at, reg, val, next) ==
    /\ spc = at
    /\ \/ /\ busLog' = Append(busLog, BusWrite(reg, val, TRUE))
          /\ spc' = next
       \/ /\ busLog' = Append(busLog, BusWrite(reg, val, FALSE))
          /\ spc' = "init_failed"
    /\ UNCHANGED <<regA, regB, cal1, calib, t_fine, reading, nreads>>

ConfigureReset == CfgWrite("cfg_reset", RESET_REG, 182, "cfg_hum")
ConfigureHum == CfgWrite("cfg_hum", CTRL_HUM_REG, 1, "cfg_meas")
ConfigureMeas == CfgWrite("cfg_meas", CTRL_MEAS_REG, 39, "cfg_config")
ConfigureConfig == CfgWrite("cfg_config", CONFIG_REG, 0, "ready")

\* read_data with the pressure compensated before the temperature: the
\* pressure reads the fine temperature the previous call left in self.t_fine.
ReadData_PressureFirst ==
    /\ spc = "ready"
    /\ nreads < MaxReads
    /\ nreads' = nreads + 1
    /\ \/ \E data \in DataBlocks :
            LET raw_pressure ==
                    BitOr(BitOr(Shl(data[0], 12), Shl(data[1], 4)), Shr(data[2], 4))
                raw_temperature ==
                    BitOr(BitOr(Shl(data[3], 12), Shl(data[4], 4)), Shr(data[5], 4))
                raw_humidity == BitOr(Shl(data[6], 8), data[7])
                pressure == _compensate_pressure(raw_pressure, t_fine)
                temperature == _compensate_temperature(raw_temperature)
                fine == temperature
            IN /\ busLog' = Append(busLog, BusRead(DATA_REG, 8, TRUE))
               /\ t_fine' = fine
               /\ reading' = [ok |-> TRUE,
                              temperature |-> temperature,
                              pressure |-> pressure,
                              humidity |-> _compensate_humidity(raw_humidity, fine)]
       \/ /\ busLog' = Append(busLog, BusRead(DATA_REG, 8, FALSE))
          /\ t_fine' = t_fine
          /\ reading' = [ok |-> FALSE]
    /\ UNCHANGED <<regA, regB, spc, cal1, calib>>

\* read_data on a constructed client: the burst read, the raw values, the
\* three compensations in the order of the code.
ReadData ==
    /\ spc = "ready"
    /\ nreads < MaxReads
    /\ nreads' = nreads + 1
    /\ \/ \E data \in DataBlocks :
            LET raw_pressure ==
                    BitOr(BitOr(Shl(data[0], 12), Shl(data[1], 4)), Shr(data[2], 4))
                raw_temperature ==
                    BitOr(BitOr(Shl(data[3], 12), Shl(data[4], 4)), Shr(data[5], 4))
                raw_humidity == BitOr(Shl(data[6], 8), data[7])
                temperature == _compensate_temperature(raw_temperature)
                fine == temperature
            IN /\ busLog' = Append(busLog, BusRead(DATA_REG, 8, TRUE))
               /\ t_fine' = fine
               /\ reading' = [ok |-> TRUE,
                              temperature |-> temperature,
                              pressure |-> _compensate_pressure(raw_pressure, fine),
                              humidity |-> _compensate_humidity(raw_humidity, fine)]
       \/ /\ busLog' = Append(busLog, BusRead(DATA_REG, 8, FALSE))
          /\ t_fine' = t_fine
          /\ reading' = [ok |-> FALSE]
    /\ UNCHANGED <<regA, regB, spc, cal1, calib>>

\* close(): the bus is closed; the session takes no further reads.
Close ==
    /\ spc = "ready"
    /\ spc' = "closed"
    /\ UNCHANGED <<regA, regB, cal1, calib, busLog, t_fine, reading, nreads>>


-----------------------------------------------------------------------------
(* tph/main.py: connect_redis *)

DefaultRetries == 5
DefaultDelay == 1

IdleConnect ==
    /\ retries = DefaultRetries
    /\ delay = DefaultDelay
    /\ cpc = "idle"
    /\ loop_i = 0
    /\ attempts = <<>>
    /\ slept = 0

InitConnect ==
    /\ retries \in 0..MaxRetries
    /\ delay \in 0..MaxDelay
    /\ cpc = "try"
    /\ loop_i = 0
    /\ attempts = <<>>
    /\ slept = 0

\* What one pass through the try block can do: the ping succeeds, Redis
\* raises redis.ConnectionError, or something else is raised (a
\* redis.TimeoutError is no ConnectionError) and leaves the function.
ConnectOutcomes == {"ok", "ConnectionError", "other"}

\* ConnectAttempt with the last-attempt test off by one (loop_i == retries).
ConnectAttempt_OffByOne ==
    /\ cpc = "try"
    /\ loop_i < retries
    /\ \E outcome \in ConnectOutcomes :
          /\ attempts' = Append(attempts, outcome)
          /\ cpc' = CASE outcome = "ok" -> "returned"
                      [] outcome = "other" -> "raised_other"
                      [] outcome = "ConnectionError" /\ loop_i = retries -> "raised_connection"
                      [] OTHER -> "sleep"
    /\ UNCHANGED <<retries, delay, loop_i, slept>>

\* One iteration of the for loop up to the return, the raise or the sleep.
ConnectAttempt ==
    /\ cpc = "try"
    /\ loop_i < retries
    /\ \E outcome \in ConnectOutcomes :
          /\ attempts' = Append(attempts, outcome)
          /\ cpc' = CASE outcome = "ok" -> "returned"
                      [] outcome = "other" -> "raised_other"
                      [] outcome = "ConnectionError" /\ loop_i = retries - 1 -> "raised_connection"
                      [] OTHER -> "sleep"
    /\ UNCHANGED <<retries, delay, loop_i, slept>>

\* time.sleep(delay), then the next iteration.
ConnectSleep ==
    /\ cpc = "sleep"
    /\ slept' = slept + delay
    /\ loop_i' = loop_i + 1
    /\ cpc' = "try"
    /\ UNCHANGED <<retries, delay, attempts>>

\* range(retries) is exhausted: the function falls off its end and returns None.
ConnectFallThrough ==
    /\ cpc = "try"
    /\ loop_i >= retries
    /\ cpc' = "returned_none"
    /\ UNCHANGED <<retries, delay, loop_i, attempts, slept>>

-----------------------------------------------------------------------------
(* tph/main.py: the batch, is_valid_sample, the aggregation *)

\* A float64 cell: a number or NaN.
Num(v) == [nan |-> FALSE, v |-> v]
NaN == [nan |-> TRUE, v |-> 0]

\* Character codes of the strings the services exchange.
Digit(d) == 48 + d
CharZ == 90
CharPlus == 43
CharColon == 58

\* strftime("%Y-%m-%dT%H:%M:%SZ") of the UTC time t: a fixed-width,
\* zero-padded, most-significant-first rendering followed by Z. The model
\* keeps two digits of it.
Strftime(t) == <<Digit(t \div 10), Digit(t % 10), CharZ>>

\* Python's < on str: by code point, a proper prefix first.
RECURSIVE StrLess(_, _)
StrLess(a, b) ==
    IF b = <<>> THEN FALSE
    ELSE IF a = <<>> THEN TRUE
    ELSE IF Head(a) # Head(b) THEN Head(a) < Head(b)
    ELSE StrLess(Tail(a), Tail(b))

\* Series.max() of a string column
RECURSIVE StrMax(_)
StrMax(col) ==
    IF Len(col) = 1 THEN col[1]
    ELSE LET m == StrMax(Tail(col))
         IN IF StrLess(m, col[1]) THEN col[1] ELSE m

\* One row of the DataFrame of get_data_sample: the latency in ms, the
\* formatted timestamp and the three channels of one read_data result.
Row(data, sensor_time) ==
    [sensor_time |-> sensor_time,
     timestamp |-> Strftime(data.timestamp),
     temperature |-> data.temperature,
     humidity |-> data.humidity,
     pressure |-> data.pressure]

Column(df, name) == [j \in 1..Len(df) |-> df[j][name]]

RECURSIVE Sum(_)
Sum(xs) == IF xs = <<>> THEN 0 ELSE Head(xs) + Sum(Tail(xs))

Squares(xs) == [j \in 1..Len(xs) |-> xs[j] * xs[j]]

\* 0.01 s, in the milliseconds the model measures sensor_time in
StdThresholdMs == 10

\* Series.std() > 0.01: pandas' std is the sample standard deviation
\* (ddof = 1), NaN for fewer than two rows, and NaN > 0.01 is False.
\* s^2 = (n*sum(x^2) - sum(x)^2) / (n*(n-1)).
StdExceeds(xs) ==
    LET n == Len(xs)
    IN IF n < 2 THEN FALSE
       ELSE n * Sum(Squares(xs)) - Sum(xs) * Sum(xs)
                > StdThresholdMs * StdThresholdMs * n * (n - 1)

AnyNull(df) ==
    \E j \in 1..Len(df) :
        df[j].temperature.nan \/ df[j].humidity.nan \/ df[j].pressure.nan

\* is_valid_sample with the population standard deviation (ddof = 0).
is_valid_sample_Population(df) ==
    IF Len(df) = 0 THEN FALSE
    ELSE IF AnyNull(df) THEN FALSE
    ELSE IF LET xs == Column(df, "sensor_time")
                n == Len(xs)
            IN n * Sum(Squares(xs)) - Sum(xs) * Sum(xs)
                   > StdThresholdMs * StdThresholdMs * n * n
         THEN FALSE
    ELSE TRUE

is_valid_sample(df) ==
    IF Len(df) = 0 THEN FALSE
    ELSE IF AnyNull(df) THEN FALSE
    ELSE IF StdExceeds(Column(df, "sensor_time")) THEN FALSE
    ELSE TRUE

\* xs in ascending order (insertion sort)
RECURSIVE Insert(_, _)
Insert(x, sorted) ==
    IF sorted = <<>> THEN <<x>>
    ELSE IF x <= Head(sorted) THEN <<x>> \o sorted
    ELSE <<Head(sorted)>> \o Insert(x, Tail(sorted))

RECURSIVE Sorted(_)
Sorted(xs) == IF xs = <<>> THEN <<>> ELSE Insert(Head(xs), Sorted(Tail(xs)))

\* Series.median() of a column without NaN, doubled so that the mean of the
\* two middle values of an even column stays an integer.
Median2(col) ==
    LET xs == Sorted([j \in 1..Len(col) |-> col[j].v])
        n == Len(xs)
    IN IF n % 2 = 1 THEN 2 * xs[(n + 1) \div 2]
       ELSE xs[n \div 2] + xs[n \div 2 + 1]

\* MedianData taking the lower middle value of an even column.
MedianData_LowerMiddle(df) ==
    LET low(col) == 2 * Sorted([j \in 1..Len(col) |-> col[j].v])[(Len(col) + 1) \div 2]
    IN [temperature |-> low(Column(df, "temperature")),
        humidity |-> low(Column(df, "humidity")),
        pressure |-> low(Column(df, "pressure")),
        timestamp |-> StrMax(Column(df, "timestamp"))]

\* median_data of main
MedianData(df) ==
    [temperature |-> Median2(Column(df, "temperature")),
     humidity |-> Median2(Column(df, "humidity")),
     pressure |-> Median2(Column(df, "pressure")),
     timestamp |-> StrMax(Column(df, "timestamp"))]

\* read_data results: temperature, pressure, humidity and time.time() in s.
Measurement(t, p, h, ts) ==
    [temperature |-> t, pressure |-> p, humidity |-> h, timestamp |-> ts]

LoopMeasurements ==
    { Measurement(Num(20), Num(1015), Num(46), 10),
      Measurement(Num(21), Num(1013), Num(45), 9) }

AnyMeasurements ==
    LoopMeasurements \cup
    { Measurement(Num(22), Num(1014), Num(47), 11),
      Measurement(NaN, Num(1013), Num(45), 9),
      Measurement(Num(20), Num(1015), NaN, 10) }

\* time.time() - sensor_start, in ms
Latencies == {1, 16}

BatchRows == { Row(m, lat) : m \in AnyMeasurements, lat \in Latencies }

RECURSIVE SeqsUpTo(_, _)
SeqsUpTo(S, n) ==
    IF n = 0 THEN {<<>>}
    ELSE LET shorter == SeqsUpTo(S, n - 1)
         IN shorter \cup { Append(q, x) : q \in shorter, x \in S }

IdleBatch ==
    /\ frame = <<>>
    /\ verdict = "none"
    /\ median_data = Unset

InitBatch ==
    /\ frame \in SeqsUpTo(BatchRows, MaxLen)
    /\ verdict = "pending"
    /\ median_data = Unset

\* main, line 144: is_valid_sample(sample_data)
Validate ==
    /\ verdict = "pending"
    /\ verdict' = IF is_valid_sample(frame) THEN "valid" ELSE "invalid"
    /\ UNCHANGED <<frame, median_data>>

\* main, lines 145-150: the record built from a batch that passed
Aggregate ==
    /\ verdict = "valid"
    /\ median_data = Unset
    /\ median_data' = MedianData(frame)
    /\ UNCHANGED <<frame, verdict>>

-----------------------------------------------------------------------------
(* The store, and the strings kept in it *)

Absent == [kind |-> "nil"]

\* A string value is kept as: whether it is the empty string, whether
\* json.loads accepts it, and the document json.loads makes of it.
JNull == [t |-> "null"]
JNum(v) == [t |-> "num", v |-> v]
JStr(chars) == [t |-> "str", s |-> chars]
JArr == [t |-> "arr"]
JObj(members) == [t |-> "obj", m |-> members]

EmptyString == [kind |-> "str", empty |-> TRUE, json |-> FALSE, doc |-> JNull]
NotJson == [kind |-> "str", empty |-> FALSE, json |-> FALSE, doc |-> JNull]

\* json.dumps(value): a non-empty string that json.loads reads back as value
JsonDumps(value) == [kind |-> "str", empty |-> FALSE, json |-> TRUE, doc |-> value]

\* json.loads(text): the document, or json.JSONDecodeError
JsonLoads(text) ==
    IF text.json THEN [ok |-> TRUE, value |-> text.doc] ELSE [ok |-> FALSE]

\* json.dumps(median_data), line 151
PublishedValue(md) ==
    JsonDumps(JObj([temperature |-> JNum(md.temperature),
                    humidity |-> JNum(md.humidity),
                    pressure |-> JNum(md.pressure),
                    timestamp |-> JStr(md.timestamp)]))

\* StoreSet writing one field of the record at a time: this step stores the
\* new temperature and leaves the other fields of the stored record.
StoreSet_FieldByField(value) ==
    store' = IF store # Absent /\ store.json /\ store.doc.t = "obj"
             THEN JsonDumps(JObj([store.doc.m EXCEPT
                                     !.temperature = value.doc.m.temperature]))
             ELSE value

\* cache.set("tph", value), line 151: the key holds the whole new string
StoreSet(value) == store' = value

-----------------------------------------------------------------------------
(* tph/main.py: main *)

IdleMain ==
    /\ envAddress = "0x76"
    /\ mpc = "none"
    /\ loop_k = 0
    /\ lists = <<>>
    /\ sample_data = Unset
    /\ store = Absent
    /\ event = "none"
    /\ cycleReads = <<>>
    /\ consecFails = 0

InitMain ==
    /\ envAddress \in {"unset", "0x76", "zz"}
    /\ mpc = "start"
    /\ loop_k = 0
    /\ lists = <<>>
    /\ sample_data = Unset
    /\ store = Absent
    /\ event = "none"
    /\ cycleReads = <<>>
    /\ consecFails = 0

Failed(e) == e \in {"read_fail", "invalid"}

Count(n) == IF n < MaxFails THEN n + 1 ELSE MaxFails

\* Lines 125-130: I2C_ADDRESS must be set and must be hexadecimal.
MainStart ==
    /\ mpc = "start"
    /\ mpc' = IF envAddress = "0x76" THEN "sensor" ELSE "crashed"
    /\ UNCHANGED <<envAddress, loop_k, lists, sample_data, store, event, cycleReads,
                   consecFails, connectVars>>

\* Line 132: BME280Client(port, address) returns the client or raises.
MainSensorInit ==
    /\ mpc = "sensor"
    /\ \/ mpc' = "connect" /\ cpc' = "try"
       \/ mpc' = "crashed" /\ cpc' = cpc
    /\ UNCHANGED <<envAddress, loop_k, lists, sample_data, store, event, cycleReads,
                   consecFails, retries, delay, loop_i, attempts, slept>>

\* Line 134: connect_redis() returned the connection, or raised.
MainConnected ==
    /\ mpc = "connect"
    /\ cpc \in {"returned", "raised_connection", "raised_other"}
    /\ mpc' = IF cpc = "returned" THEN "cycle" ELSE "crashed"
    /\ cpc' = "idle"
    /\ loop_i' = 0
    /\ attempts' = <<>>
    /\ slept' = 0
    /\ UNCHANGED <<envAddress, loop_k, lists, sample_data, store, event, cycleReads,
                   consecFails, retries, delay>>

\* Lines 136-138 and 35-39: a pass of the while loop calls get_data_sample,
\* which starts from five empty lists.
BeginCycle ==
    /\ mpc = "cycle"
    /\ mpc' = "sampling"
    /\ loop_k' = 0
    /\ lists' = <<>>
    /\ cycleReads' = <<>>
    /\ event' = "none"
    /\ UNCHANGED <<envAddress, sample_data, store, consecFails, connectVars>>

\* SampleRead with the exception of read_data swallowed inside the for loop:
\* the iteration is skipped and the batch goes on.
SampleRead_SkipFailed ==
    /\ mpc = "sampling"
    /\ loop_k < SampleN
    /\ loop_k' = loop_k + 1
    /\ \/ \E data \in LoopMeasurements, sensor_time \in Latencies :
            /\ lists' = Append(lists, Row(data, sensor_time))
            /\ cycleReads' = Append(cycleReads, [ok |-> TRUE, row |-> Row(data, sensor_time)])
       \/ /\ lists' = lists
          /\ cycleReads' = Append(cycleReads, [ok |-> FALSE])
    /\ UNCHANGED <<envAddress, mpc, sample_data, store, event, consecFails, connectVars>>

\* SampleRead with the exception of read_data leaving main.
SampleRead_Propagates ==
    /\ mpc = "sampling"
    /\ loop_k < SampleN
    /\ \/ \E data \in LoopMeasurements, sensor_time \in Latencies :
            /\ lists' = Append(lists, Row(data, sensor_time))
            /\ cycleReads' = Append(cycleReads, [ok |-> TRUE, row |-> Row(data, sensor_time)])
            /\ loop_k' = loop_k + 1
            /\ UNCHANGED <<mpc, event, consecFails>>
       \/ /\ cycleReads' = Append(cycleReads, [ok |-> FALSE])
          /\ lists' = <<>>
          /\ loop_k' = 0
          /\ mpc' = "crashed"
          /\ event' = "read_fail"
          /\ consecFails' = Count(consecFails)
    /\ UNCHANGED <<envAddress, sample_data, store, connectVars>>

\* Lines 41-54 and 140-142: one iteration of get_data_sample. read_data
\* returns a measurement, which is appended with its latency; or it raises,
\* get_data_sample is left with its lists, main logs and continues.
SampleRead ==
    /\ mpc = "sampling"
    /\ loop_k < SampleN
    /\ \/ \E data \in LoopMeasurements, sensor_time \in Latencies :
            /\ lists' = Append(lists, Row(data, sensor_time))
            /\ cycleReads' = Append(cycleReads, [ok |-> TRUE, row |-> Row(data, sensor_time)])
            /\ loop_k' = loop_k + 1
            /\ UNCHANGED <<mpc, event, consecFails>>
       \/ /\ cycleReads' = Append(cycleReads, [ok |-> FALSE])
          /\ lists' = <<>>
          /\ loop_k' = 0
          /\ mpc' = "cycle"
          /\ event' = "read_fail"
          /\ consecFails' = Count(consecFails)
    /\ UNCHANGED <<envAddress, sample_data, store, connectVars>>

\* Lines 56-76 and 138: the DataFrame of the n rows is returned and bound to
\* sample_data.
SampleReturn ==
    /\ mpc = "sampling"
    /\ loop_k = SampleN
    /\ sample_data' = lists
    /\ lists' = <<>>
    /\ loop_k' = 0
    /\ mpc' = "decide"
    /\ UNCHANGED <<envAddress, store, event, cycleReads, consecFails, connectVars>>

\* Lines 144-151: the batch is valid and cache.set stores the record.
Publish ==
    /\ mpc = "decide"
    /\ is_valid_sample(sample_data)
    /\ StoreSet(PublishedValue(MedianData(sample_data)))
    /\ event' = "set"
    /\ consecFails' = 0
    /\ mpc' = "cycle"
    /\ UNCHANGED <<envAddress, loop_k, lists, sample_data, cycleReads, connectVars>>

\* PublishFails with the SET inside a try that logs and continues, as the
\* sampling is: the loop goes on to the next cycle.
PublishFails_Masked ==
    /\ mpc = "decide"
    /\ is_valid_sample(sample_data)
    /\ event' = "set_failed"
    /\ mpc' = "cycle"
    /\ UNCHANGED <<envAddress, loop_k, lists, sample_data, store, cycleReads,
                   consecFails, connectVars>>

\* Line 151: cache.set raises; nothing in main catches it.
PublishFails ==
    /\ mpc = "decide"
    /\ is_valid_sample(sample_data)
    /\ event' = "set_failed"
    /\ mpc' = "crashed"
    /\ UNCHANGED <<envAddress, loop_k, lists, sample_data, store, cycleReads,
                   consecFails, connectVars>>

\* Lines 152-154: the batch is not valid; main warns and continues.
SkipInvalid ==
    /\ mpc = "decide"
    /\ ~is_valid_sample(sample_data)
    /\ event' = "invalid"
    /\ consecFails' = Count(consecFails)
    /\ mpc' = "cycle"
    /\ UNCHANGED <<envAddress, loop_k, lists, sample_data, store, cycleReads, connectVars>>

-----------------------------------------------------------------------------
(* data/main.py: the read API *)

Requests == {"r1", "r2"}

Offset00 == <<CharPlus, Digit(0), Digit(0), CharColon, Digit(0), Digit(0)>>

IsDigit(c) == c >= Digit(0) /\ c <= Digit(9)

\* datetime.fromisoformat(s): the two digits the model keeps of the date
\* and time, then nothing (a naive datetime), +00:00, or Z where this
\* Python reads it (3.11 and later); anything else is a ValueError.
FromIsoFormat(s, readsZ) ==
    IF Len(s) < 2 \/ ~IsDigit(s[1]) \/ ~IsDigit(s[2]) THEN [ok |-> FALSE]
    ELSE LET rest == SubSeq(s, 3, Len(s))
             t == 10 * (s[1] - Digit(0)) + (s[2] - Digit(0))
         IN IF rest = <<>> THEN [ok |-> TRUE, t |-> t, tz |-> "naive"]
            ELSE IF rest = Offset00 \/ (rest = <<CharZ>> /\ readsZ)
                 THEN [ok |-> TRUE, t |-> t, tz |-> "utc"]
            ELSE [ok |-> FALSE]

\* datetime.isoformat()
IsoFormat(d) ==
    <<Digit(d.t \div 10), Digit(d.t % 10)>> \o (IF d.tz = "utc" THEN Offset00 ELSE <<>>)

Response(status, body) == [status |-> status, body |-> body]

NoBody == [detail |-> TRUE]

TPHFields == {"temperature", "pressure", "humidity"}

\* get_tph_data, lines 105-116, on the value redis.get returned
get_tph_data(data, readsZ) ==
    IF data = Absent \/ data.empty THEN Response(404, NoBody)
    ELSE LET loaded == JsonLoads(data)
         IN IF ~loaded.ok THEN Response(500, NoBody)                    \* JSONDecodeError
            ELSE LET tph_data == loaded.value
                 IN IF tph_data.t # "obj" THEN Response(500, NoBody)    \* TypeError
                    ELSE IF "timestamp" \notin DOMAIN tph_data.m
                         THEN Response(500, NoBody)                     \* KeyError
                    ELSE IF tph_data.m.timestamp.t # "str"
                         THEN Response(500, NoBody)                     \* TypeError
                    ELSE LET timestamp == FromIsoFormat(tph_data.m.timestamp.s, readsZ)
                         IN IF ~timestamp.ok THEN Response(500, NoBody) \* ValueError
                            ELSE IF \E f \in TPHFields :
                                        \/ f \notin DOMAIN tph_data.m
                                        \/ tph_data.m[f].t # "num"
                                 THEN Response(500, NoBody)             \* ValidationError
                            ELSE Response(200,
                                     [temperature |-> tph_data.m.temperature.v,
                                      pressure |-> tph_data.m.pressure.v,
                                      humidity |-> tph_data.m.humidity.v,
                                      timestamp |-> IsoFormat(timestamp)])

\* The records a cycle of the acquisition loop can publish.
PublishableValues ==
    { PublishedValue(MedianData(df)) :
        df \in { d \in SeqsUpTo({ Row(m, lat) : m \in LoopMeasurements, lat \in Latencies },
                                SampleN) :
                    Len(d) = SampleN /\ is_valid_sample(d) } }

\* What the key may hold when the API starts.
StoreContents ==
    { Absent,
      EmptyString,
      NotJson,
      JsonDumps(JNull),
      JsonDumps(JNum(7)),
      JsonDumps(JArr),
      JsonDumps(JObj([temperature |-> JNum(43), pressure |-> JNum(2026),
                      humidity |-> JNum(91), timestamp |-> JStr(<<Digit(1), Digit(2)>>)])),
      JsonDumps(JObj([temperature |-> JNum(43), pressure |-> JNum(2026),
                      humidity |-> JNum(91), timestamp |-> JStr(<<Digit(1), Digit(2), CharZ>>)])),
      JsonDumps(JObj([temperature |-> JNum(43), pressure |-> JNum(2026),
                      humidity |-> JNum(91), timestamp |-> JStr(<<Digit(1), Digit(2)>>),
                      unit |-> JStr(<<67>>)])),
      JsonDumps(JObj([temperature |-> JNum(43),
                      timestamp |-> JStr(<<Digit(1), Digit(2)>>)])),
      JsonDumps(JObj([temperature |-> JNum(43), pressure |-> JNum(2026),
                      humidity |-> JNum(91)])),
      JsonDumps(JObj([temperature |-> JNum(43), pressure |-> JNum(2026),
                      humidity |-> JNum(91), timestamp |-> JStr(<<105, 110, 118>>)])),
      JsonDumps(JObj([temperature |-> JNum(43), pressure |-> JNum(2026),
                      humidity |-> JNum(91), timestamp |-> JNum(12)])),
      JsonDumps(JObj([temperature |-> JNull, pressure |-> JNum(2026),
                      humidity |-> JNum(91), timestamp |-> JStr(<<Digit(1), Digit(2)>>)])) }

NoData == [kind |-> "unread"]
NoResponse == Response(0, NoBody)

Request(pc) == [pc |-> pc, redis |-> 0, data |-> NoData, response |-> NoResponse]

IdleApi ==
    /\ acceptsZ = TRUE
    /\ instance = 0
    /\ nhandles = 0
    /\ closed = {}
    /\ hook = "none"
    /\ req = [r \in Requests |-> Request("off")]
    /\ written = {}

\* One client of the API, every content of the key, either Python.
InitApi ==
    /\ acceptsZ \in BOOLEAN
    /\ instance = 0
    /\ nhandles = 0
    /\ closed = {}
    /\ hook = "idle"
    /\ req = [r \in Requests |-> IF r = "r1" THEN Request("idle") ELSE Request("off")]
    /\ store \in StoreContents
    /\ written = {store}
    /\ envAddress = "0x76"
    /\ mpc = "none"
    /\ loop_k = 0
    /\ lists = <<>>
    /\ sample_data = Unset
    /\ event = "none"
    /\ cycleReads = <<>>
    /\ consecFails = 0

\* Two clients of the API asking at once, the key holding no record yet.
InitHandle ==
    /\ acceptsZ = TRUE
    /\ instance = 0
    /\ nhandles = 0
    /\ closed = {}
    /\ hook = "idle"
    /\ req = [r \in Requests |-> Request("idle")]
    /\ store = Absent
    /\ written = {store}
    /\ envAddress = "0x76"
    /\ mpc = "none"
    /\ loop_k = 0
    /\ lists = <<>>
    /\ sample_data = Unset
    /\ event = "none"
    /\ cycleReads = <<>>
    /\ consecFails = 0

\* The acquisition service completes a cycle with a valid batch and SETs
\* its record (main, lines 144-151), seen from the store.
ExternalPublish ==
    /\ \E value \in PublishableValues :
          /\ StoreSet(value)
          /\ written' = written \cup {value}
    /\ UNCHANGED <<acceptsZ, instance, nhandles, closed, hook, req>>

\* get_instance without the cache test: every call constructs a handle.
StartRequest_AlwaysCreates(r) ==
    /\ req[r].pc = "idle"
    /\ nhandles < MaxHandles
    /\ nhandles' = nhandles + 1
    /\ instance' = nhandles + 1
    /\ req' = [req EXCEPT ![r] = [@ EXCEPT !.pc = "ping", !.redis = instance']]
    /\ UNCHANGED <<acceptsZ, closed, hook, store, written>>

\* get_redis, lines 69-70: RedisClient.get_instance() creates the handle if
\* none is cached and returns the cached one. No await: it runs in one step.
StartRequest(r) ==
    /\ req[r].pc = "idle"
    /\ IF instance = 0
       THEN /\ nhandles < MaxHandles
            /\ nhandles' = nhandles + 1
            /\ instance' = nhandles + 1
       ELSE UNCHANGED <<nhandles, instance>>
    /\ req' = [req EXCEPT ![r] = [@ EXCEPT !.pc = "ping", !.redis = instance']]
    /\ UNCHANGED <<acceptsZ, closed, hook, store, written>>

\* get_redis, lines 71-75: await redis.ping() returns, or raises and the
\* request is answered 503.
Ping(r) ==
    /\ req[r].pc = "ping"
    /\ \/ req' = [req EXCEPT ![r] = [@ EXCEPT !.pc = "get"]]
       \/ req' = [req EXCEPT ![r] = [@ EXCEPT !.pc = "done",
                                               !.response = Response(503, NoBody)]]
    /\ UNCHANGED <<acceptsZ, instance, nhandles, closed, hook, store, written>>

\* get_tph_data, line 103: data = await redis.get("tph"). The call may
\* raise; it stands outside the try, so the framework answers 500.
Get(r) ==
    /\ req[r].pc = "get"
    /\ \/ req' = [req EXCEPT ![r] = [@ EXCEPT !.pc = "respond", !.data = store]]
       \/ req' = [req EXCEPT ![r] = [@ EXCEPT !.pc = "done",
                                               !.response = Response(500, NoBody)]]
    /\ UNCHANGED <<acceptsZ, instance, nhandles, closed, hook, store, written>>

\* get_tph_data, lines 105-116
Respond(r) ==
    /\ req[r].pc = "respond"
    /\ req' = [req EXCEPT ![r] = [@ EXCEPT !.pc = "done",
                                            !.response = get_tph_data(req[r].data, acceptsZ)]]
    /\ UNCHANGED <<acceptsZ, instance, nhandles, closed, hook, store, written>>

\* The response is sent; the client may ask again.
Finish(r) ==
    /\ req[r].pc = "done"
    /\ req' = [req EXCEPT ![r] = Request("idle")]
    /\ UNCHANGED <<acceptsZ, instance, nhandles, closed, hook, store, written>>

\* shutdown_event -> RedisClient.close, lines 46-47: with a cached handle,
\* close() is awaited on it; with none, there is nothing to do.
ShutdownBegin ==
    /\ hook = "idle"
    /\ hook' = IF instance # 0 THEN "closing" ELSE "done"
    /\ UNCHANGED <<acceptsZ, instance, nhandles, closed, req, store, written>>

\* RedisClient.close, lines 47-48: close() has returned; the cache is cleared.
ShutdownEnd ==
    /\ hook = "closing"
    /\ closed' = closed \cup {instance}
    /\ instance' = 0
    /\ hook' = "done"
    /\ UNCHANGED <<acceptsZ, nhandles, req, store, written>>

-----------------------------------------------------------------------------
(* Specifications *)

SensorOnly == UNCHANGED <<connectVars, batchVars, mainVars, apiVars>>

NextSensor ==
    \/ LoadCal1 /\ SensorOnly
    \/ LoadCal2 /\ SensorOnly
    \/ ConfigureReset /\ SensorOnly
    \/ ConfigureHum /\ SensorOnly
    \/ ConfigureMeas /\ SensorOnly
    \/ ConfigureConfig /\ SensorOnly
    \/ ReadData /\ SensorOnly
    \/ Close /\ SensorOnly

InitSensorSpec == InitSensor /\ IdleConnect /\ IdleBatch /\ IdleMain /\ IdleApi

SpecSensor == InitSensorSpec /\ [][NextSensor]_vars

ConnectOnly == UNCHANGED <<sensorVars, batchVars, mainVars, apiVars>>

NextConnect ==
    \/ ConnectAttempt /\ ConnectOnly
    \/ ConnectSleep /\ ConnectOnly
    \/ ConnectFallThrough /\ ConnectOnly

InitConnectSpec == InitConnect /\ IdleSensor /\ IdleBatch /\ IdleMain /\ IdleApi

SpecConnect == InitConnectSpec /\ [][NextConnect]_vars

BatchOnly == UNCHANGED <<sensorVars, connectVars, mainVars, apiVars>>

NextBatch ==
    \/ Validate /\ BatchOnly
    \/ Aggregate /\ BatchOnly

InitBatchSpec == InitBatch /\ IdleSensor /\ IdleConnect /\ IdleMain /\ IdleApi

SpecBatch == InitBatchSpec /\ [][NextBatch]_vars

MainOnly == UNCHANGED <<sensorVars, batchVars, apiVars>>

Init == InitMain /\ IdleSensor /\ IdleConnect /\ IdleBatch /\ IdleApi

\* connect_redis() is called with its defaults, so range(retries) is never
\* exhausted and ConnectFallThrough has no part here.
Next ==
    \/ MainStart /\ MainOnly
    \/ MainSensorInit /\ MainOnly
    \/ ConnectAttempt /\ UNCHANGED mainVars /\ MainOnly
    \/ ConnectSleep /\ UNCHANGED mainVars /\ MainOnly
    \/ MainConnected /\ MainOnly
    \/ BeginCycle /\ MainOnly
    \/ SampleRead /\ MainOnly
    \/ SampleReturn /\ MainOnly
    \/ Publish /\ MainOnly
    \/ PublishFails /\ MainOnly
    \/ SkipInvalid /\ MainOnly

Spec == Init /\ [][Next]_vars

\* main runs on one thread that nothing else holds up: a step it can take,
\* it takes.
FairSpec == Spec /\ WF_vars(Next)

ApiOnly ==
    UNCHANGED <<sensorVars, connectVars, batchVars, envAddress, mpc, loop_k, lists,
                sample_data, event, cycleReads, consecFails>>

InitApiSpec == InitApi /\ IdleSensor /\ IdleConnect /\ IdleBatch

NextApi ==
    \/ ExternalPublish /\ ApiOnly
    \/ \E r \in Requests : StartRequest(r) /\ ApiOnly
    \/ \E r \in Requests : Ping(r) /\ ApiOnly
    \/ \E r \in Requests : Get(r) /\ ApiOnly
    \/ \E r \in Requests : Respond(r) /\ ApiOnly
    \/ \E r \in Requests : Finish(r) /\ ApiOnly
    \/ ShutdownBegin /\ ApiOnly
    \/ ShutdownEnd /\ ApiOnly

SpecApi == InitApiSpec /\ [][NextApi]_vars

InitHandleSpec == InitHandle /\ IdleSensor /\ IdleConnect /\ IdleBatch

SpecHandle == InitHandleSpec /\ [][NextApi]_vars

-----------------------------------------------------------------------------
(* Claims on connect_redis (SpecConnect) *)

AllConnectionErrors(outcomes) ==
    \A j \in 1..Len(outcomes) : outcomes[j] = "ConnectionError"

\* C1: with retries >= 1, connect_redis makes at most retries attempts; it
\* returns exactly at the first attempt that succeeds, every earlier one
\* having failed with a connection error and been followed by one delay;
\* after retries connection errors in a row it has raised that error, with
\* retries attempts and retries-1 delays made and no delay after the last.
C1_BoundedRetry ==
    retries >= 1 =>
        /\ Len(attempts) <= retries
        /\ Len(attempts) >= 1 =>
              AllConnectionErrors(SubSeq(attempts, 1, Len(attempts) - 1))
        /\ cpc = "returned" <=>
              (Len(attempts) >= 1 /\ attempts[Len(attempts)] = "ok")
        /\ cpc = "raised_connection" <=>
              (Len(attempts) = retries /\ AllConnectionErrors(attempts))
        /\ cpc = "raised_connection" => slept = (retries - 1) * delay
        /\ cpc = "returned" => slept = (Len(attempts) - 1) * delay
        /\ cpc = "sleep" => Len(attempts) < retries
        /\ cpc # "returned_none"

\* C1 witness: the call returned at its last permitted attempt, after
\* retries-1 failures.
C1_Witness ==
    /\ retries = 3
    /\ cpc = "returned"
    /\ Len(attempts) = retries
    /\ slept = 2 * delay
    /\ delay > 0

-----------------------------------------------------------------------------
(* Claims on the acquisition loop (Spec, FairSpec) *)

CycleRows == [j \in 1..Len(cycleReads) |-> cycleReads[j].row]

\* C3: whenever a cycle has failed, by a read error or by an invalid batch,
\* main stands at the head of its loop, whatever the number of failures
\* before, and a new sampling cycle follows.
C3_FailedCycleContinues ==
    [](Failed(event) => (mpc = "cycle" /\ <>(mpc = "sampling")))

\* C3 witness: sampling goes on in a cycle begun after MaxFails failed
\* cycles in a row.
C3_Witness ==
    /\ consecFails >= 2
    /\ mpc = "sampling"
    /\ loop_k = 1

\* C4: the key is written only by a step that ends a cycle with a SET, and
\* after such a step the cycle holds SampleN reads, all successful, the
\* validated batch is exactly their rows, and the stored value is the
\* record computed from those rows.
C4_WholeBatchOnly ==
    [][ /\ store' # store => event' = "set"
        /\ event' = "set" =>
              /\ Len(cycleReads') = SampleN
              /\ \A j \in 1..Len(cycleReads') : cycleReads'[j].ok
              /\ sample_data' = [j \in 1..Len(cycleReads') |-> cycleReads'[j].row]
              /\ is_valid_sample(sample_data')
              /\ store' = PublishedValue(MedianData(sample_data'))
        /\ Failed(event') => store' = store ]_vars

\* C4 witness: a record has just been published from the cycle's rows.
C4_Witness ==
    /\ event = "set"
    /\ Len(cycleReads) = SampleN
    /\ store = PublishedValue(MedianData(CycleRows))

-----------------------------------------------------------------------------
(* Claims on is_valid_sample and the aggregation (SpecBatch) *)

Channels == {"temperature", "humidity", "pressure"}

\* sum over pairs a < b of (x_a - x_b)^2, which is n*(n-1) times the sample
\* variance
PairwiseSquares(xs) ==
    LET pairs == { pr \in (1..Len(xs)) \X (1..Len(xs)) : pr[1] < pr[2] }
        RECURSIVE total(_)
        total(S) ==
            IF S = {} THEN 0
            ELSE LET pr == CHOOSE q \in S : TRUE
                 IN (xs[pr[1]] - xs[pr[2]]) * (xs[pr[1]] - xs[pr[2]]) + total(S \ {pr})
    IN total(pairs)

LatencyStdExceeds(df) ==
    /\ Len(df) >= 2
    /\ PairwiseSquares(Column(df, "sensor_time"))
           > StdThresholdMs * StdThresholdMs * Len(df) * (Len(df) - 1)

\* C6: is_valid_sample answers false for the empty batch, for a batch with
\* a missing value, and for a batch whose latencies have a standard
\* deviation above 0.01 s; it answers true for every other batch.
C6_ValidityDecision ==
    verdict \in {"valid", "invalid"} =>
        (verdict = "valid" <=>
            /\ Len(frame) > 0
            /\ \A j \in 1..Len(frame) : \A c \in Channels : ~frame[j][c].nan
            /\ ~LatencyStdExceeds(frame))

\* C6 witness: a complete two-row batch rejected for its latencies alone.
C6_Witness ==
    /\ verdict = "invalid"
    /\ Len(frame) = 2
    /\ \A j \in 1..Len(frame) : \A c \in Channels : ~frame[j][c].nan
    /\ LatencyStdExceeds(frame)

\* v is the r-th smallest of xs
IsOrderStatistic(v, r, xs) ==
    /\ \E j \in 1..Len(xs) : xs[j] = v
    /\ Cardinality({ j \in 1..Len(xs) : xs[j] < v }) < r
    /\ Cardinality({ j \in 1..Len(xs) : xs[j] <= v }) >= r

Elements(xs) == { xs[j] : j \in 1..Len(xs) }

\* m2 is twice the standard median of xs
IsDoubledMedian(m2, xs) ==
    LET n == Len(xs)
    IN IF n % 2 = 1
       THEN \E v \in Elements(xs) :
               IsOrderStatistic(v, (n + 1) \div 2, xs) /\ m2 = 2 * v
       ELSE \E a \in Elements(xs), b \in Elements(xs) :
               /\ IsOrderStatistic(a, n \div 2, xs)
               /\ IsOrderStatistic(b, n \div 2 + 1, xs)
               /\ m2 = a + b

\* the time a formatted timestamp stands for: its leading decimal digits
RECURSIVE SecondsOf(_, _)
SecondsOf(chars, acc) ==
    IF chars = <<>> \/ ~IsDigit(Head(chars)) THEN acc
    ELSE SecondsOf(Tail(chars), 10 * acc + (Head(chars) - Digit(0)))

\* C7: the record built from a valid batch holds, per channel, the standard
\* median of that channel over the batch, and the timestamp of the batch
\* that stands for the latest time.
C7_MedianAndLatest ==
    median_data # Unset =>
        /\ \A c \in Channels :
              IsDoubledMedian(median_data[c], [j \in 1..Len(frame) |-> frame[j][c].v])
        /\ \E j \in 1..Len(frame) : frame[j].timestamp = median_data.timestamp
        /\ \A j \in 1..Len(frame) :
              SecondsOf(frame[j].timestamp, 0) <= SecondsOf(median_data.timestamp, 0)

\* C7 witness: an even batch whose two temperatures differ and whose latest
\* timestamp is not its last.
C7_Witness ==
    /\ median_data # Unset
    /\ Len(frame) = 2
    /\ frame[1].temperature.v # frame[2].temperature.v
    /\ median_data.temperature = frame[1].temperature.v + frame[2].temperature.v
    /\ SecondsOf(frame[2].timestamp, 0) < SecondsOf(frame[1].timestamp, 0)
    /\ median_data.timestamp = frame[1].timestamp

-----------------------------------------------------------------------------
(* Claims on the read API (SpecApi) *)

Answered(r) == req[r].pc = "done" /\ req[r].data # NoData

\* The stored string is a JSON object with numeric temperature, pressure
\* and humidity and a timestamp string that fromisoformat reads.
WellFormed(data) ==
    /\ data # Absent
    /\ data.json
    /\ data.doc.t = "obj"
    /\ \A f \in TPHFields : f \in DOMAIN data.doc.m /\ data.doc.m[f].t = "num"
    /\ "timestamp" \in DOMAIN data.doc.m
    /\ data.doc.m.timestamp.t = "str"
    /\ FromIsoFormat(data.doc.m.timestamp.s, acceptsZ).ok

\* C2 (as claimed): a request that read the key is answered 404 exactly
\* when the key was absent, 200 exactly when the value was well-formed, and
\* 500 for every other present value.
C2_StatusByContent ==
    \A r \in Requests :
        Answered(r) =>
            /\ req[r].response.status \in {200, 404, 500}
            /\ req[r].response.status = 404 <=> req[r].data = Absent
            /\ req[r].response.status = 200 <=> WellFormed(req[r].data)
            /\ req[r].response.status = 500 <=>
                  (req[r].data # Absent /\ ~WellFormed(req[r].data))

\* the four fields of body are those of the stored value v
FieldsOf(body, v) ==
    /\ v # Absent
    /\ v.json
    /\ v.doc.t = "obj"
    /\ \A f \in TPHFields \cup {"timestamp"} : f \in DOMAIN v.doc.m
    /\ v.doc.m.temperature = JNum(body.temperature)
    /\ v.doc.m.pressure = JNum(body.pressure)
    /\ v.doc.m.humidity = JNum(body.humidity)
    /\ v.doc.m.timestamp.t = "str"
    /\ SecondsOf(v.doc.m.timestamp.s, 0) = SecondsOf(body.timestamp, 0)

\* C5: what a request read from the key is a value the key has held, and
\* the four fields of a 200 answer are together the fields of one such
\* value.
C5_ReaderSeesOneRecord ==
    \A r \in Requests :
        /\ req[r].data # NoData => req[r].data \in written
        /\ (Answered(r) /\ req[r].response.status = 200) =>
              \E v \in written : FieldsOf(req[r].response.body, v)

\* C5 witness: a 200 answer carrying a published record that a later
\* publish has already replaced in the store.
C5_Witness ==
    /\ Answered("r1")
    /\ req["r1"].response.status = 200
    /\ req["r1"].data \in PublishableValues
    /\ store \in PublishableValues
    /\ store # req["r1"].data

-----------------------------------------------------------------------------
(* Claims on the sensor session (SpecSensor) *)

Unsigned16LE(lo, hi) == lo + 256 * hi

\* v is the two's-complement reading of the w-bit pattern u
IsTwosComplement(v, u, w) ==
    /\ v >= -(2^(w - 1))
    /\ v <= 2^(w - 1) - 1
    /\ (v - u) % (2^w) = 0

CalibLoaded == calib # Unset

\* C8: once calibration is loaded, T1 and P1 are the unsigned little-endian
\* 16-bit values of A[0..1] and A[6..7]; T2, T3, P2..P9 and H2 are the
\* two's-complement little-endian 16-bit values of their byte pairs
\* (A[2..3], A[4..5], A[8..9] .. A[22..23], B[0..1]); H1 = A[25] and
\* H3 = B[2] are unsigned bytes; H6 is the two's-complement value of B[6].
C8_CalibrationFieldMap ==
    CalibLoaded =>
        /\ calib.dig_T1 = Unsigned16LE(regA[0], regA[1])
        /\ calib.dig_T1 \in 0..65535
        /\ IsTwosComplement(calib.dig_T2, Unsigned16LE(regA[2], regA[3]), 16)
        /\ IsTwosComplement(calib.dig_T3, Unsigned16LE(regA[4], regA[5]), 16)
        /\ calib.dig_P1 = Unsigned16LE(regA[6], regA[7])
        /\ calib.dig_P1 \in 0..65535
        /\ IsTwosComplement(calib.dig_P2, Unsigned16LE(regA[8], regA[9]), 16)
        /\ IsTwosComplement(calib.dig_P3, Unsigned16LE(regA[10], regA[11]), 16)
        /\ IsTwosComplement(calib.dig_P4, Unsigned16LE(regA[12], regA[13]), 16)
        /\ IsTwosComplement(calib.dig_P5, Unsigned16LE(regA[14], regA[15]), 16)
        /\ IsTwosComplement(calib.dig_P6, Unsigned16LE(regA[16], regA[17]), 16)
        /\ IsTwosComplement(calib.dig_P7, Unsigned16LE(regA[18], regA[19]), 16)
        /\ IsTwosComplement(calib.dig_P8, Unsigned16LE(regA[20], regA[21]), 16)
        /\ IsTwosComplement(calib.dig_P9, Unsigned16LE(regA[22], regA[23]), 16)
        /\ calib.dig_H1 = regA[25]
        /\ IsTwosComplement(calib.dig_H2, Unsigned16LE(regB[0], regB[1]), 16)
        /\ calib.dig_H3 = regB[2]
        /\ IsTwosComplement(calib.dig_H6, regB[6], 8)

\* C8 witness: a loaded calibration whose T2 pair is 0x00,0x80 and decodes
\* to -32768.
C8_Witness ==
    /\ CalibLoaded
    /\ regA[2] = 0
    /\ regA[3] = 128
    /\ calib.dig_T2 = -32768

\* C9 (as claimed): once calibration is loaded, H4 and H5 are the
\* two's-complement readings of the 12-bit fields (B[3]<<4)|(B[4]&0x0F) and
\* (B[5]<<4)|(B[4]>>4), hence within -2048..2047.
C9_Packed12Signed ==
    CalibLoaded =>
        /\ IsTwosComplement(calib.dig_H4, 16 * regB[3] + (regB[4] % 16), 12)
        /\ IsTwosComplement(calib.dig_H5, 16 * regB[5] + (regB[4] \div 16), 12)

InitSequence ==
    << BusRead(CALIB_REG, 26, TRUE),
       BusRead(CALIB_HUM_REG, 7, TRUE),
       BusWrite(RESET_REG, 182, TRUE),
       BusWrite(CTRL_HUM_REG, 1, TRUE),
       BusWrite(CTRL_MEAS_REG, 39, TRUE),
       BusWrite(CONFIG_REG, 0, TRUE) >>

OpsOn(reg) == { i \in 1..Len(busLog) : busLog[i].reg = reg }

\* C10: every data burst read is preceded by the complete initialisation
\* sequence (both calibration reads, then reset, humidity oversampling,
\* measurement control and config, each once and successful); nothing but
\* data reads follows it; and a failed calibration read leaves no session
\* and no data read.
C10_InitOnceBeforeReads ==
    /\ \A i \in OpsOn(DATA_REG) :
          /\ i > Len(InitSequence)
          /\ SubSeq(busLog, 1, Len(InitSequence)) = InitSequence
    /\ \A i \in 1..Len(busLog) :
          i > Len(InitSequence) => busLog[i].reg = DATA_REG
    /\ \A reg \in {CALIB_REG, CALIB_HUM_REG, RESET_REG, CTRL_HUM_REG,
                   CTRL_MEAS_REG, CONFIG_REG} :
          Cardinality(OpsOn(reg)) <= 1
    /\ spc \in {"ready", "closed"} =>
          /\ Len(busLog) >= Len(InitSequence)
          /\ SubSeq(busLog, 1, Len(InitSequence)) = InitSequence
    /\ (\E i \in OpsOn(CALIB_REG) \cup OpsOn(CALIB_HUM_REG) : ~busLog[i].ok) =>
          /\ spc = "init_failed"
          /\ calib = Unset
          /\ OpsOn(DATA_REG) = {}
          /\ nreads = 0

\* C10 witness: a session that has gone on to a second data read.
C10_Witness ==
    /\ spc = "ready"
    /\ nreads = 2
    /\ Cardinality(OpsOn(DATA_REG)) = 2

\* The data reads of the session, in order, with their outcome.
DataReads == SelectSeq(busLog, LAMBDA op : op.reg = DATA_REG)

\* C11: the measurement a read_data call returns has its pressure and its
\* humidity compensated with the fine temperature that the temperature
\* compensation computed from the raw temperature of the same call, and that
\* is the value the call leaves in self.t_fine; this holds for the first
\* read, for a read after a successful one and for a read after a failed one.
C11_FineFromSameRead ==
    (reading # Unset /\ reading.ok) =>
        LET fine == _compensate_temperature(reading.temperature.adc_T)
        IN /\ reading.temperature = fine
           /\ reading.pressure.t_fine = fine
           /\ reading.humidity.t_fine = fine
           /\ t_fine = fine
           /\ \E data \in DataBlocks :
                 reading.temperature.adc_T =
                     data[3] * 4096 + data[4] * 16 + (data[5] \div 16)

\* C11 witness: a second successful read following a successful one, whose
\* raw temperature is that of the second burst of DataBlocks.
C11_Witness ==
    /\ Len(DataReads) = 2
    /\ DataReads[1].ok /\ DataReads[2].ok
    /\ reading # Unset /\ reading.ok
    /\ reading.temperature.adc_T = 130 * 4096 + 17 * 16 + 15
    /\ reading.pressure.t_fine = t_fine

\* The handles constructed so far that close() has not closed.
OpenHandles == (1..nhandles) \ closed

\* The step in which request r calls RedisClient.get_instance().
GetInstanceStep(r) == req[r].pc = "idle" /\ req'[r].pc = "ping"

\* C12: in every step of every interleaving of the requests and the shutdown
\* hook: a get_instance call returns the cached handle and constructs
\* nothing when one is cached, and constructs a fresh handle, caches and
\* returns it, when none is; handles are constructed nowhere else; a handle
\* is closed only by close(), which closes the cached handle, not closed
\* before, and clears the cache; the cache holds nothing or an open handle;
\* and at most one constructed handle is not closed.
C12_OneCachedHandle ==
    [][
        /\ \A r \in Requests :
              GetInstanceStep(r) =>
                  /\ req'[r].redis = instance'
                  /\ (instance # 0 => (instance' = instance /\ nhandles' = nhandles))
                  /\ (instance = 0 =>
                        (/\ nhandles' = nhandles + 1
                         /\ instance' = nhandles'
                         /\ instance' \notin closed))
        /\ (nhandles' # nhandles =>
              (instance = 0 /\ \E q \in Requests : GetInstanceStep(q)))
        /\ (closed' # closed =>
              (/\ hook = "closing"
               /\ instance # 0
               /\ instance \notin closed
               /\ closed' = closed \cup {instance}
               /\ instance' = 0))
        /\ (instance' # instance =>
              (closed' # closed \/ \E q \in Requests : GetInstanceStep(q)))
        /\ (instance' # 0 => instance' \in (1..nhandles') \ closed')
        /\ Cardinality((1..nhandles') \ closed') <= 1
    ]_vars

\* C12 witness: the hook has closed the first handle while a request still
\* holds it, and the other request has been given a fresh handle, the only
\* open one.
C12_Witness ==
    /\ hook = "done"
    /\ closed = {1}
    /\ instance = 2
    /\ OpenHandles = {2}
    /\ req["r1"].pc = "get" /\ req["r1"].redis = 1
    /\ req["r2"].pc = "ping" /\ req["r2"].redis = 2

\* C13: a step in which cache.set raises leaves main (it is not sent back
\* to the head of the loop as a failed sampling or an invalid batch is) and
\* leaves the key as it was; and from then on main stays out of the loop: no
\* cycle begins, nothing is sampled and the key is not written again.
C13_PublishFailureFatal ==
    [][
        /\ ((event # "set_failed" /\ event' = "set_failed") =>
              (/\ mpc = "decide"
               /\ is_valid_sample(sample_data)
               /\ mpc' = "crashed"
               /\ store' = store))
        /\ (event = "set_failed" =>
              (/\ event' = "set_failed"
               /\ mpc = "crashed"
               /\ mpc' = "crashed"
               /\ store' = store
               /\ cycleReads' = cycleReads
               /\ sample_data' = sample_data))
    ]_vars

\* C13 witness: a cycle published a record, a later cycle's SET raised on a
\* batch with another record, and the key still holds the earlier one.
C13_Witness ==
    /\ event = "set_failed"
    /\ mpc = "crashed"
    /\ store # Absent
    /\ is_valid_sample(sample_data)
    /\ store # PublishedValue(MedianData(sample_data))

=============================================================================
